---- MODULE Spec2Model ----
(***************************************************************************)
(* Model of the facet posting store (meilisearch-core/src/store/facets.rs), *)
(* the facet filter parser (meilisearch-http/src/routes/search.rs) and the  *)
(* search helpers (meilisearch-http/src/helpers/meilisearch.rs).            *)
(*                                                                         *)
(* The specifications share the variables:                                 *)
(*   Spec          the facet store under heed's single-writer /            *)
(*                 multi-reader transactions;                              *)
(*   SpecParse     parse_facet_filters applied to bounded JSON values;     *)
(*   SpecAlign     aligned_crop applied to bounded texts;                  *)
(*   SpecCrop      crop_text applied to bounded texts and match lists;     *)
(*   SpecHighlight calculate_highlights applied to bounded documents;      *)
(*   SpecMatches   calculate_matches applied to bounded match lists;       *)
(*   SpecKey       FacetKey::new applied to bounded field values;          *)
(*   SpecDistinct  the distinct closure of search and the ranked query;    *)
(*   SpecCriteria  get_criteria applied to bounded ranking rules;          *)
(*   SpecCropDoc   crop_document applied to bounded documents;             *)
(*   SpecSelectors the attributesToCrop parameter of search_with_url_query. *)
(***************************************************************************)
EXTENDS Integers, Sequences, FiniteSets, TLC

VARIABLES
    committed,   \* facets database as seen by a new read transaction
    wtxn,        \* "none" | "open": the (single) RwTxn
    wview,       \* the database as seen through the open RwTxn
    upd,         \* the running Facets::update call: pc, pending entries, facet_map
    ret,         \* last value returned by put_facets / update: "none" | "Ok" | "Err"
    readers,     \* RoTxn per reader: open, snapshot, version tag
    got,         \* last document_ids call: reader, key, result
    txnPuts,     \* history: last put of each key inside the open RwTxn
    lastPut,     \* history: last committed put of each key
    batch,       \* history: the update batch of the current / last RwTxn
    ntxn,        \* number of write transactions begun so far
    expr,        \* parse_facet_filters: the expression, as serde_json reads it
    parsed,      \* parse_facet_filters: what the call returned
    text,        \* aligned_crop / crop_text: the field's text, as characters
    match_index, \* aligned_crop: the character index of the match
    context,     \* aligned_crop / crop_text: the crop length asked for
    matches,     \* crop_text: the field's matches, sorted
    window,      \* aligned_crop: what the call returned
    cropped,     \* crop_text: what the call returned
    document,    \* calculate_highlights / crop_document: the fields of the hit
    matches_info,            \* MatchesInfos: positions by attribute name
    attributes_to_highlight, \* calculate_highlights: the attributes asked for
    formatted,   \* calculate_highlights: what the call returned
    highlights,  \* calculate_matches / crop_document: the Vec<Highlight> of the hit
    attributes_to_retrieve,  \* calculate_matches: the optional attribute filter
    displayed,   \* schema.displayed_name()
    matches_result,          \* calculate_matches: what the call returned
    key_field,   \* FacetKey::new: the argument _field_id
    key_value,   \* FacetKey::new: the argument _value, as characters
    new_key,     \* FacetKey::new: what the call returned
    distinct_attribute,  \* search: what main.distinct_attribute(reader) gives
    attribute_bytes,     \* search: what document_attribute_bytes gives per document
    sip,         \* SipHasher: the 64-bit hash of each byte string
    ranked,      \* the candidates of the query, in ranked order
    with_distinct,       \* search: whether the distinct closure is installed
    group_keys,  \* history: the key the closure gave for each candidate
    docs,        \* search: the documents query_builder.query returned
    ranking_rules,       \* get_criteria: what main.ranking_rules(reader) gives
    ranked_map,  \* get_criteria: the ranked attributes SortByAttr resolves
    criteria,    \* get_criteria: what the call returned, and the errors logged
    query_builder,       \* search: the query builder chosen
    crop_formatted,      \* crop_document: the argument document (the hit's formatted)
    crop_matches,        \* crop_document: the argument matches
    fields,      \* crop_document: the crop length asked for per field name
    crop_result, \* crop_document: document and matches when the call returns
    attributes_to_crop,      \* params.attributes_to_crop, as characters
    crop_length, \* params.crop_length
    available_attributes,    \* schema.displayed_name()
    restricted_attributes,   \* the attributes attributesToRetrieve leaves
    to_crop      \* the final_attributes given to search_builder.attributes_to_crop

facetVars == <<committed, wtxn, wview, upd, ret, readers, got,
               txnPuts, lastPut, batch, ntxn>>

parseVars == <<expr, parsed>>

cropVars == <<text, match_index, context, matches, window, cropped>>

highlightVars == <<document, matches_info, attributes_to_highlight, formatted>>

matchesVars == <<highlights, attributes_to_retrieve, displayed, matches_result>>

keyVars == <<key_field, key_value, new_key>>

distinctVars == <<distinct_attribute, attribute_bytes, sip, ranked, with_distinct,
                  group_keys, docs>>

criteriaVars == <<ranking_rules, ranked_map, criteria, query_builder>>

cropDocVars == <<crop_formatted, crop_matches, fields, crop_result>>

selectorVars == <<attributes_to_crop, crop_length, available_attributes,
                  restricted_attributes, to_crop>>

vars == <<facetVars, parseVars, cropVars, highlightVars, matchesVars, keyVars,
          distinctVars, criteriaVars, cropDocVars, selectorVars>>

----------------------------------------------------------------------------
(* Bounds *)

MaxDoc == 2          \* document ids are 1..MaxDoc
MaxVecLen == 2       \* longest Vec<DocumentId> handed to update
MaxTxns == 2         \* write transactions in one run
MaxTop == 2          \* elements of the top-level array of a facet expression
MaxInner == 2        \* elements of a nested array of a facet expression
MaxTermLen == 5      \* characters of a string term
MaxAlignLen == 5     \* characters of a text handed to aligned_crop
MaxTextLen == 4      \* characters of a text handed to crop_text
MaxContext == 2      \* largest crop length
MaxMatches == 2      \* matches of one field
MaxMatchLen == 2     \* characters of one match
MaxHlLen == 3        \* characters of a text handed to calculate_highlights
MaxHighlights == 3   \* matches of one hit
MaxValueLen == 3     \* characters of a facet value
MaxCandidates == 3   \* candidate documents of one query
MaxRules == 3        \* ranking rules configured on the index
MaxSelectorLen == 5  \* characters of the attributesToCrop parameter

Keys == {"k1", "k2"}         \* FacetKey values in use
Readers == {"r1", "r2"}      \* concurrent read transactions

DocumentId == 1..MaxDoc

----------------------------------------------------------------------------
(* Option<T> *)

None == <<>>
Some(x) == <<x>>
IsSome(o) == Len(o) = 1
Unwrap(o) == o[1]

(* Vec<DocumentId>: every sequence of ids up to MaxVecLen, in any order,   *)
(* with repetitions.                                                       *)
SeqUpTo(S, n) == UNION {[1..m -> S] : m \in 0..n}

Vecs == SeqUpTo(DocumentId, MaxVecLen)

IsStrictlyIncreasing(s) == \A i \in 1..(Len(s) - 1) : s[i] < s[i + 1]

(* &Set<DocumentId> built by sdset's checked constructors: sorted and      *)
(* deduplicated.                                                           *)
Sets == {s \in SeqUpTo(DocumentId, MaxDoc) : IsStrictlyIncreasing(s)}

(* slice::sort_unstable: ascending order, every element kept.              *)
RECURSIVE InsertSorted(_, _)
InsertSorted(x, s) ==
    IF s = <<>> THEN <<x>>
    ELSE IF x <= Head(s) THEN <<x>> \o s
    ELSE <<Head(s)>> \o InsertSorted(x, Tail(s))

RECURSIVE sort_unstable(_)
sort_unstable(v) ==
    IF v = <<>> THEN <<>> ELSE InsertSorted(Head(v), sort_unstable(Tail(v)))

(* Set::new_unchecked: the slice taken as it is, no check, no dedup.       *)
new_unchecked(v) == v

----------------------------------------------------------------------------
(* Facets *)

EmptyDb == [k \in Keys |-> None]

(* A put that adds to the postings already stored instead of replacing    *)
(* them.                                                                   *)
put_facets_merge(view, facet_key, doc_ids, ok) ==
    IF ok
    THEN [view |-> [view EXCEPT ![facet_key] =
                      IF IsSome(view[facet_key])
                      THEN Some(sort_unstable(view[facet_key][1] \o doc_ids))
                      ELSE Some(doc_ids)],
          res |-> "Ok"]
    ELSE [view |-> view, res |-> "Err"]

(* heed::Database::put through a RwTxn: on success the value of the key is *)
(* replaced in the transaction's view; on a storage error nothing changes. *)
put_facets(view, facet_key, doc_ids, ok) ==
    IF ok
    THEN [view |-> [view EXCEPT ![facet_key] = Some(doc_ids)], res |-> "Ok"]
    ELSE [view |-> view, res |-> "Err"]

(* heed::Database::get through a RoTxn: the posting list of the snapshot.  *)
document_ids(snapshot, facet_key) == snapshot[facet_key]

(* One iteration of the loop of Facets::update on entry (key, document_ids) *)
UpdateEntry(view, key, doc_ids, ok) ==
    put_facets(view, key, new_unchecked(sort_unstable(doc_ids)), ok)

NoTries == [k \in Keys |-> 0]

(* tried and failed are history: the number of put_facets calls the        *)
(* running update made for each key, and the key whose put failed.         *)
IdleUpd == [pc |-> "idle", pending |-> <<>>, map |-> <<>>, tried |-> NoTries,
            failed |-> None]
NoBatch == [state |-> "none", keys |-> {}, pre |-> EmptyDb, post |-> EmptyDb]
ClosedReader == [open |-> FALSE, snap |-> EmptyDb, ver |-> "cur"]
NoGot == [reader |-> "none", key |-> "none", result |-> None]

FacetMaps == UNION {[K -> Vecs] : K \in SUBSET Keys}

InitFacets ==
    /\ committed = EmptyDb
    /\ wtxn = "none"
    /\ wview = EmptyDb
    /\ upd = IdleUpd
    /\ ret = "none"
    /\ readers = [r \in Readers |-> ClosedReader]
    /\ got = NoGot
    /\ txnPuts = EmptyDb
    /\ lastPut = EmptyDb
    /\ batch = NoBatch
    /\ ntxn = 0

(* Database::main_write_txn: at most one RwTxn at a time; it starts from   *)
(* the committed database.                                                 *)
BeginWrite ==
    /\ wtxn = "none"
    /\ ntxn < MaxTxns
    /\ ntxn' = ntxn + 1
    /\ wtxn' = "open"
    /\ wview' = committed
    /\ batch' = NoBatch
    /\ UNCHANGED <<upd, ret, txnPuts>>
    /\ UNCHANGED <<committed, readers, got, lastPut>>

(* A direct call of Facets::put_facets with a Set.                         *)
PutFacets ==
    /\ wtxn = "open"
    /\ upd.pc = "idle"
    /\ \E k \in Keys, ids \in Sets, ok \in BOOLEAN :
         LET r == put_facets(wview, k, ids, ok) IN
         /\ wview' = r.view
         /\ ret' = r.res
         /\ txnPuts' = IF ok THEN [txnPuts EXCEPT ![k] = Some(ids)] ELSE txnPuts
    /\ UNCHANGED <<committed, wtxn, upd, readers, got, lastPut, batch, ntxn>>

(* Facets::update is called with a facet map, in a fresh RwTxn.            *)
UpdateStart ==
    /\ wtxn = "open"
    /\ upd.pc = "idle"
    /\ txnPuts = EmptyDb
    /\ ret = "none"
    /\ \E fm \in FacetMaps :
         /\ upd' = [pc |-> "running", pending |-> fm, map |-> fm, tried |-> NoTries,
                     failed |-> None]
         /\ batch' = [state |-> "open",
                      keys |-> DOMAIN fm,
                      pre |-> committed,
                      post |-> [k \in Keys |->
                                  IF k \in DOMAIN fm
                                  THEN Some(sort_unstable(fm[k]))
                                  ELSE committed[k]]]
    /\ UNCHANGED <<committed, wtxn, wview, ret, readers, got, txnPuts, lastPut,
                   ntxn>>

Restrict(f, S) == [x \in S |-> f[x]]

(* An update that commits every put on its own.                            *)
UpdateStepAutoCommit ==
    /\ wtxn = "open"
    /\ upd.pc = "running"
    /\ IF DOMAIN upd.pending = {}
       THEN /\ upd' = [upd EXCEPT !.pc = "ok"]
            /\ ret' = "Ok"
            /\ UNCHANGED <<wview, txnPuts, committed>>
       ELSE \E key \in DOMAIN upd.pending, ok \in BOOLEAN :
              LET r == UpdateEntry(wview, key, upd.pending[key], ok) IN
              /\ wview' = r.view
              /\ committed' = r.view
              /\ IF ok
                 THEN /\ upd' = [upd EXCEPT !.pending =
                                   Restrict(upd.pending, DOMAIN upd.pending \ {key}),
                                 !.tried[key] = @ + 1]
                      /\ ret' = ret
                      /\ txnPuts' = [txnPuts EXCEPT ![key] = r.view[key]]
                 ELSE /\ upd' = [upd EXCEPT !.pc = "err", !.tried[key] = @ + 1,
                                             !.failed = Some(key)]
                      /\ ret' = "Err"
                      /\ txnPuts' = txnPuts
    /\ UNCHANGED <<wtxn, readers, got, lastPut, batch, ntxn>>

(* An update that puts a key again when its put failed.                    *)
UpdateStepRetry ==
    /\ wtxn = "open"
    /\ upd.pc = "running"
    /\ IF DOMAIN upd.pending = {}
       THEN /\ upd' = [upd EXCEPT !.pc = "ok"]
            /\ ret' = "Ok"
            /\ UNCHANGED <<wview, txnPuts>>
       ELSE \E key \in DOMAIN upd.pending, ok \in BOOLEAN :
              LET r == UpdateEntry(wview, key, upd.pending[key], ok) IN
              /\ wview' = r.view
              /\ ret' = ret
              /\ upd.tried[key] <= 1
              /\ IF ok
                 THEN /\ upd' = [upd EXCEPT !.pending =
                                   Restrict(upd.pending, DOMAIN upd.pending \ {key}),
                                 !.tried[key] = @ + 1]
                      /\ txnPuts' = [txnPuts EXCEPT ![key] = r.view[key]]
                 ELSE /\ upd' = [upd EXCEPT !.tried[key] = @ + 1]
                      /\ txnPuts' = txnPuts
    /\ UNCHANGED <<committed, wtxn, readers, got, lastPut, batch, ntxn>>

(* One turn of the for loop of Facets::update: the HashMap yields its      *)
(* entries in an arbitrary order; a failed put returns at once ("?"); when *)
(* no entry is left the function returns Ok(()).                           *)
UpdateStep ==
    /\ wtxn = "open"
    /\ upd.pc = "running"
    /\ IF DOMAIN upd.pending = {}
       THEN /\ upd' = [upd EXCEPT !.pc = "ok"]
            /\ ret' = "Ok"
            /\ UNCHANGED <<wview, txnPuts>>
       ELSE \E key \in DOMAIN upd.pending, ok \in BOOLEAN :
              LET r == UpdateEntry(wview, key, upd.pending[key], ok) IN
              /\ wview' = r.view
              /\ IF ok
                 THEN /\ upd' = [upd EXCEPT !.pending =
                                   Restrict(upd.pending, DOMAIN upd.pending \ {key}),
                                 !.tried[key] = @ + 1]
                      /\ ret' = ret
                      /\ txnPuts' = [txnPuts EXCEPT ![key] = r.view[key]]
                 ELSE /\ upd' = [upd EXCEPT !.pc = "err", !.tried[key] = @ + 1,
                                             !.failed = Some(key)]
                      /\ ret' = "Err"
                      /\ txnPuts' = txnPuts
    /\ UNCHANGED <<committed, wtxn, readers, got, lastPut, batch, ntxn>>

(* RwTxn::commit: the whole view of the transaction becomes the committed  *)
(* database in one step. The caller holds the RwTxn only between calls, so *)
(* never while update runs, and commits only what returned Ok.             *)
Commit ==
    /\ wtxn = "open"
    /\ upd.pc \in {"idle", "ok"}
    /\ committed' = wview
    /\ wtxn' = "none"
    /\ lastPut' = [k \in Keys |-> IF IsSome(txnPuts[k]) THEN txnPuts[k] ELSE lastPut[k]]
    /\ batch' = IF batch.state = "open" THEN [batch EXCEPT !.state = "committed"] ELSE batch
    /\ readers' = [r \in Readers |->
                     IF readers[r].open
                     THEN [readers[r] EXCEPT !.ver =
                             IF readers[r].ver = "cur" THEN "prev" ELSE "old"]
                     ELSE readers[r]]
    /\ wview' = wview
    /\ upd' = IdleUpd
    /\ ret' = "none"
    /\ txnPuts' = EmptyDb
    /\ UNCHANGED <<got, ntxn>>

(* RwTxn::abort (or drop): the view of the transaction is discarded.       *)
Abort ==
    /\ wtxn = "open"
    /\ upd.pc # "running"
    /\ wtxn' = "none"
    /\ batch' = NoBatch
    /\ txnPuts' = EmptyDb
    /\ wview' = committed
    /\ upd' = IdleUpd
    /\ ret' = "none"
    /\ UNCHANGED <<committed, readers, got, lastPut, ntxn>>

(* Database::main_read_txn: a snapshot of the committed database.          *)
BeginRead ==
    \E r \in Readers :
      /\ ~readers[r].open
      /\ readers' = [readers EXCEPT ![r] = [open |-> TRUE, snap |-> committed, ver |-> "cur"]]
      /\ UNCHANGED <<committed, wtxn, wview, upd, ret, got, txnPuts, lastPut, batch,
                     ntxn>>

EndRead ==
    \E r \in Readers :
      /\ readers[r].open
      /\ readers' = [readers EXCEPT ![r] = ClosedReader]
      /\ got' = IF got.reader = r THEN NoGot ELSE got
      /\ UNCHANGED <<committed, wtxn, wview, upd, ret, txnPuts, lastPut, batch,
                     ntxn>>

(* Facets::document_ids called in an open read transaction.                *)
DocumentIds ==
    \E r \in Readers, k \in Keys :
      /\ readers[r].open
      /\ got' = [reader |-> r, key |-> k, result |-> document_ids(readers[r].snap, k)]
      /\ UNCHANGED <<committed, wtxn, wview, upd, ret, readers, txnPuts, lastPut, batch,
                     ntxn>>

----------------------------------------------------------------------------
(* Properties of the facet store, checked under Spec *)

(* C1: every posting list persisted in the facets database is strictly     *)
(* increasing (sorted, every id at most once), whatever document-id lists  *)
(* update was given.                                                       *)
C1_PersistedStrictlyIncreasing ==
    \A k \in Keys :
      IsSome(committed[k]) => IsStrictlyIncreasing(Unwrap(committed[k]))

(* C2: in a read transaction begun after the last commit, document_ids of  *)
(* a key is exactly what the most recent committed put of that key wrote   *)
(* (the order of the ids included, nothing of an earlier put merged in),   *)
(* and None for a key no committed put wrote.                              *)
C2_ReadsMostRecentPut ==
    /\ \A r \in Readers, k \in Keys :
         (readers[r].open /\ readers[r].ver = "cur")
           => document_ids(readers[r].snap, k) = lastPut[k]
    /\ (got.reader # "none" /\ readers[got.reader].ver = "cur")
         => got.result = lastPut[got.key]

(* C2 witness: a reader that began before the last commit still holds      *)
(* postings of a key, and a reader begun after it has read other postings  *)
(* of that key: those of the later put.                                    *)
C2_Witness ==
    \E r1 \in Readers :
      /\ got.reader # "none"
      /\ r1 # got.reader
      /\ readers[r1].open /\ readers[r1].ver = "prev"
      /\ readers[got.reader].ver = "cur"
      /\ IsSome(readers[r1].snap[got.key])
      /\ IsSome(got.result)
      /\ got.result # readers[r1].snap[got.key]
      /\ got.result = lastPut[got.key]

(* C3: a reader sees of an update batch all or nothing. While the batch is *)
(* being written, has returned, or has failed, and is not committed, a     *)
(* reader of the current database sees the pre-batch postings of every key *)
(* of the batch; once it is committed a reader begun after the commit sees *)
(* the post-batch postings of every key, and a reader begun before the     *)
(* commit keeps the pre-batch postings of every key.                       *)
C3_BatchAtomic ==
    \A r \in Readers :
      readers[r].open =>
        /\ (batch.state = "open" /\ readers[r].ver = "cur")
             => \A k \in batch.keys : readers[r].snap[k] = batch.pre[k]
        /\ (batch.state = "committed" /\ readers[r].ver = "cur")
             => \A k \in batch.keys : readers[r].snap[k] = batch.post[k]
        /\ (batch.state = "committed" /\ readers[r].ver = "prev")
             => \A k \in batch.keys : readers[r].snap[k] = batch.pre[k]

(* C3 witness: update has written one key of a two-key batch and not yet   *)
(* the other, and a reader has just read the written key and got its       *)
(* pre-batch postings.                                                     *)
C3_Witness ==
    /\ upd.pc = "running"
    /\ batch.keys = Keys
    /\ Cardinality(DOMAIN upd.pending) = 1
    /\ got.reader # "none"
    /\ got.key \notin DOMAIN upd.pending
    /\ got.result = batch.pre[got.key]
    /\ wview[got.key] # batch.pre[got.key]
    /\ IsSome(batch.pre[got.key])

(* C18: when a put fails update returns Err at once: the failed key was    *)
(* put once and no key still to be processed was put at all; when update   *)
(* returns Ok every key of the map was put exactly once, with its sorted   *)
(* list, and no other key was put.                                         *)
C18_FailedPutReturnsAtOnce ==
    /\ upd.pc = "err" =>
         /\ ret = "Err"
         /\ IsSome(upd.failed)
         /\ Unwrap(upd.failed) \in DOMAIN upd.pending
         /\ \A k \in Keys :
              upd.tried[k] =
                IF k = Unwrap(upd.failed) \/ k \in DOMAIN upd.map \ DOMAIN upd.pending
                THEN 1 ELSE 0
    /\ upd.pc = "ok" =>
         /\ ret = "Ok"
         /\ upd.failed = None
         /\ \A k \in Keys :
              IF k \in DOMAIN upd.map
              THEN upd.tried[k] = 1 /\ wview[k] = Some(sort_unstable(upd.map[k]))
              ELSE upd.tried[k] = 0
    /\ upd.pc = "running" => \A k \in Keys : upd.tried[k] <= 1

(* update fails on its second key: one key is written, one failed, and     *)
(* the call returned Err.                                                  *)
C18_Witness ==
    /\ upd.pc = "err"
    /\ DOMAIN upd.map = Keys
    /\ Cardinality(DOMAIN upd.pending) = 1
    /\ \A k \in Keys : upd.tried[k] = 1

----------------------------------------------------------------------------
(* parse_facet_filters *)

(* serde_json::Value, as far as parse_facet_filters tells values apart:    *)
(* a string, an array, anything else (null, bool, number, object); and the *)
(* outcome of serde_json::from_str on text that is not JSON.               *)
JString(str) == [kind |-> "String", s |-> str, items |-> <<>>]
JArray(vals) == [kind |-> "Array", s |-> <<>>, items |-> vals]
JOther == [kind |-> "Other", s |-> <<>>, items |-> <<>>]
JInvalid == [kind |-> "Invalid", s |-> <<>>, items |-> <<>>]

(* Schema::id: the schema of the index knows the attributes "a" and "b".   *)
SchemaId(name) ==
    IF name = <<"a">> THEN Some(0)
    ELSE IF name = <<"b">> THEN Some(1)
    ELSE None

(* str::split(":"): the segments between the colons, empty ones included;  *)
(* a string without colon is one segment.                                  *)
RECURSIVE SplitFrom(_, _)
SplitFrom(str, cur) ==
    IF str = <<>> THEN <<cur>>
    ELSE IF Head(str) = ":" THEN <<cur>> \o SplitFrom(Tail(str), <<>>)
    ELSE SplitFrom(Tail(str), Append(cur, Head(str)))

Split(str) == SplitFrom(str, <<>>)

ParseOk(v) == [status |-> "Ok", value |-> v, err |-> "none"]
ParseErr(kind) == [status |-> "Err", value |-> <<>>, err |-> kind]
ParsePanic == [status |-> "Panic", value |-> <<>>, err |-> "none"]
ParsePending == [status |-> "Pending", value |-> <<>>, err |-> "none"]

(* parse_string: the first segment names the attribute (next().unwrap()),  *)
(* the last of the segments left is the value (last()).                    *)
parse_string(string) ==
    LET segs == Split(string) IN
    IF segs = <<>> THEN ParsePanic
    ELSE LET id_str == Head(segs)
             id == SchemaId(id_str)
             rest == Tail(segs)
         IN IF ~IsSome(id) THEN ParseErr("unknown_attribute")
            ELSE IF rest = <<>> THEN ParseErr("malformed_term")
            ELSE ParseOk([field |-> Unwrap(id), value |-> rest[Len(rest)]])

(* An inner loop that passes over a value that is no string.               *)
RECURSIVE ParseInnerSkip(_, _)
ParseInnerSkip(vals, inner) ==
    IF vals = <<>> THEN ParseOk(inner)
    ELSE LET val == Head(vals) IN
         IF val.kind = "String"
         THEN LET r == parse_string(val.s) IN
              IF r.status = "Ok" THEN ParseInnerSkip(Tail(vals), Append(inner, r.value))
              ELSE r
         ELSE ParseInnerSkip(Tail(vals), inner)

(* The inner loop: every value of a nested array is a string term.         *)
RECURSIVE ParseInner(_, _)
ParseInner(vals, inner) ==
    IF vals = <<>> THEN ParseOk(inner)
    ELSE LET val == Head(vals) IN
         IF val.kind = "String"
         THEN LET r == parse_string(val.s) IN
              IF r.status = "Ok" THEN ParseInner(Tail(vals), Append(inner, r.value))
              ELSE r
         ELSE ParseErr("expected_string")

Left(terms) == [either |-> "Left", terms |-> terms]
Right(term) == [either |-> "Right", terms |-> <<term>>]

(* An outer loop that puts each element in front of the result.            *)
RECURSIVE ParseOuterFront(_, _)
ParseOuterFront(values, result) ==
    IF values = <<>> THEN ParseOk(result)
    ELSE LET val == Head(values) IN
         IF val.kind = "String"
         THEN LET r == parse_string(val.s) IN
              IF r.status = "Ok"
              THEN ParseOuterFront(Tail(values), <<Right(r.value)>> \o result)
              ELSE r
         ELSE IF val.kind = "Array"
         THEN LET r == ParseInner(val.items, <<>>) IN
              IF r.status = "Ok"
              THEN ParseOuterFront(Tail(values), <<Left(r.value)>> \o result)
              ELSE r
         ELSE ParseErr("expected_string_or_array")

(* The outer loop: a string gives Either::Right, an array Either::Left.    *)
RECURSIVE ParseOuter(_, _)
ParseOuter(values, result) ==
    IF values = <<>> THEN ParseOk(result)
    ELSE LET val == Head(values) IN
         IF val.kind = "String"
         THEN LET r == parse_string(val.s) IN
              IF r.status = "Ok"
              THEN ParseOuter(Tail(values), Append(result, Right(r.value)))
              ELSE r
         ELSE IF val.kind = "Array"
         THEN LET r == ParseInner(val.items, <<>>) IN
              IF r.status = "Ok"
              THEN ParseOuter(Tail(values), Append(result, Left(r.value)))
              ELSE r
         ELSE ParseErr("expected_string_or_array")

parse_facet_filters(e) ==
    IF e.kind = "Invalid" THEN ParseErr("json")
    ELSE IF e.kind = "Array" THEN ParseOuter(e.items, <<>>)
    ELSE ParseErr("expected_array")

TermChars == {"a", "b", "x", ":", "1"}

Terms(n) == SeqUpTo(TermChars, n)

TermSamples == {<<"a", ":", "1">>, <<"b", ":", "1">>, <<"x", ":", "1">>}

InnerValues == {JString(t) : t \in TermSamples} \cup {JOther}

InnerArrays(inner) == {JArray(vals) : vals \in SeqUpTo(InnerValues, inner)}

TopValues(inner) ==
    {JString(t) : t \in TermSamples} \cup InnerArrays(inner) \cup {JOther}

IdleParse ==
    /\ expr = JInvalid
    /\ parsed = ParsePending

InitParse ==
    \* Expressions of every shape over a few terms, and every term alone,
    \* as a top-level element and inside a nested array.
    /\ \/ expr \in {JInvalid, JOther, JString(<<"a", ":", "1">>)}
       \/ \E m \in 0..MaxTop : \E vals \in [1..m -> TopValues(MaxInner)] :
             expr = JArray(vals)
       \/ \E t \in Terms(MaxTermLen) :
             expr \in {JArray(<<JString(t)>>), JArray(<<JArray(<<JString(t)>>)>>)}
    /\ parsed = ParsePending

(* search_with_url_query hands the facetFilters parameter to               *)
(* parse_facet_filters.                                                    *)
ParseFacetFilters ==
    /\ parsed.status = "Pending"
    /\ parsed' = parse_facet_filters(expr)
    /\ UNCHANGED expr

----------------------------------------------------------------------------
(* Properties of parse_facet_filters, checked under SpecParse *)

(* What a term "field:value" means: the field is what stands before the    *)
(* first colon, the value all that stands after it.                        *)
HasColon(t) == \E i \in 1..Len(t) : t[i] = ":"

FirstColon(t) == CHOOSE i \in 1..Len(t) : t[i] = ":" /\ \A j \in 1..(i - 1) : t[j] # ":"

FieldOf(t) == IF HasColon(t) THEN SubSeq(t, 1, FirstColon(t) - 1) ELSE t

ValueOf(t) == SubSeq(t, FirstColon(t) + 1, Len(t))

KnownField(t) == FieldOf(t) \in {<<"a">>, <<"b">>}

FieldIdOf(t) == IF FieldOf(t) = <<"a">> THEN 0 ELSE 1

ExpectedTerm(t) == [field |-> FieldIdOf(t), value |-> ValueOf(t)]

(* A term "field:value" of a known field whose value holds no colon.       *)
PlainTerm(t) ==
    /\ HasColon(t)
    /\ KnownField(t)
    /\ ValueOf(t) # <<>>
    /\ ~HasColon(ValueOf(t))

IsTermArray(e) ==
    /\ e.kind = "Array"
    /\ \A i \in 1..Len(e.items) : e.items[i].kind = "String" /\ PlainTerm(e.items[i].s)

IsFilterExpr(e) ==
    /\ e.kind = "Array"
    /\ \A i \in 1..Len(e.items) :
         \/ e.items[i].kind = "String" /\ PlainTerm(e.items[i].s)
         \/ IsTermArray(e.items[i])

(* C4: on an array of "field:value" strings and arrays of such strings,    *)
(* all of known fields, parse_facet_filters returns one element per        *)
(* top-level entry, in input order: Either::Right of the (FieldId, value)  *)
(* pair for a string, Either::Left of the pairs of the nested array, in    *)
(* order, for an array.                                                    *)
C4_AndOfOr ==
    (parsed.status # "Pending" /\ IsFilterExpr(expr)) =>
      /\ parsed.status = "Ok"
      /\ Len(parsed.value) = Len(expr.items)
      /\ \A i \in 1..Len(expr.items) :
           IF expr.items[i].kind = "String"
           THEN parsed.value[i] = Right(ExpectedTerm(expr.items[i].s))
           ELSE parsed.value[i] =
                  Left([j \in 1..Len(expr.items[i].items) |->
                          ExpectedTerm(expr.items[i].items[j].s)])

(* C4 witness: a single term followed by a group of two terms is parsed.   *)
C4_Witness ==
    /\ parsed.status = "Ok"
    /\ IsFilterExpr(expr)
    /\ Len(parsed.value) = 2
    /\ parsed.value[1].either = "Right"
    /\ parsed.value[2].either = "Left"
    /\ Len(parsed.value[2].terms) = 2
    /\ parsed.value[2].terms[1] # parsed.value[2].terms[2]

(* The expression holds one string term, at top level or in a nested array *)
IsSingleTerm(e) ==
    /\ e.kind = "Array"
    /\ Len(e.items) = 1
    /\ \/ e.items[1].kind = "String"
       \/ /\ e.items[1].kind = "Array"
          /\ Len(e.items[1].items) = 1
          /\ e.items[1].items[1].kind = "String"

TermOf(e) == IF e.items[1].kind = "String" THEN e.items[1].s ELSE e.items[1].items[1].s

(* C5: a string term without colon, or with nothing after the colon, makes *)
(* parse_facet_filters fail with the malformed-term error; it gives no     *)
(* (FieldId, value) pair. (Where the field of the term is unknown as well, *)
(* the unknown-attribute error is accepted in its place.)                  *)
C5_MalformedTermFails ==
    (parsed.status # "Pending" /\ IsSingleTerm(expr)
       /\ (~HasColon(TermOf(expr)) \/ ValueOf(TermOf(expr)) = <<>>))
      => /\ parsed.status = "Err"
         /\ parsed.value = <<>>
         /\ KnownField(TermOf(expr)) => parsed.err = "malformed_term"

(* C6: a term of a known field is split on its first colon: the value of   *)
(* the parsed pair is all that follows the first colon, further colons     *)
(* included.                                                               *)
C6_SplitOnFirstColon ==
    (parsed.status # "Pending" /\ IsSingleTerm(expr)
       /\ HasColon(TermOf(expr)) /\ KnownField(TermOf(expr))
       /\ ValueOf(TermOf(expr)) # <<>>)
      => /\ parsed.status = "Ok"
         /\ parsed.value[1].terms = <<ExpectedTerm(TermOf(expr))>>

(* The defects of an expression, each named by the error it calls for.     *)
TermDefects(t) ==
    IF ~KnownField(t) THEN {"unknown_attribute"}
    ELSE IF ~HasColon(t) THEN {"malformed_term"}
    ELSE {}

InnerDefects(v) ==
    IF v.kind = "String" THEN TermDefects(v.s) ELSE {"expected_string"}

TopDefects(v) ==
    IF v.kind = "String" THEN TermDefects(v.s)
    ELSE IF v.kind = "Array"
    THEN UNION {InnerDefects(v.items[j]) : j \in 1..Len(v.items)}
    ELSE {"expected_string_or_array"}

Defects(e) ==
    IF e.kind = "Invalid" THEN {"json"}
    ELSE IF e.kind # "Array" THEN {"expected_array"}
    ELSE UNION {TopDefects(e.items[i]) : i \in 1..Len(e.items)}

(* C7: parse_facet_filters always returns, Ok or Err, and never panics. An *)
(* expression with a term of an unknown field or of a wrong JSON shape     *)
(* gives an error and no filter, and the error is one the expression calls *)
(* for: the unknown-attribute error when unknown fields are its only       *)
(* defect, a parse error of the shape when the shape is.                   *)
C7_TotalNoPanic ==
    parsed.status # "Pending" =>
      /\ parsed.status \in {"Ok", "Err"}
      /\ (Defects(expr) # {}) =>
           /\ parsed.status = "Err"
           /\ parsed.value = <<>>
           /\ parsed.err \in Defects(expr)
      /\ (Defects(expr) = {}) => parsed.status = "Ok"

(* C7 witness: after a good term, a nested array holding a value that is   *)
(* no string is refused.                                                   *)
C7_Witness ==
    /\ parsed = ParseErr("expected_string")
    /\ Len(expr.items) = 2
    /\ expr.items[1].kind = "String"
    /\ Defects(expr) = {"expected_string"}

----------------------------------------------------------------------------
(* aligned_crop, crop_text *)

(* Characters by class: "a" a Latin letter, "J" a CJK character, " " white *)
(* space, "." punctuation.                                                 *)
is_cjk(c) == c = "J"
is_alphanumeric(c) == c \in {"a", "J"}
is_whitespace(c) == c = " "

(* A word component that takes CJK characters for letters of a word.      *)
is_word_component_any(c) == is_alphanumeric(c)

is_word_component(c) == is_alphanumeric(c) /\ ~is_cjk(c)

(* text.chars().skip(index).take_while(is_word_component).count()          *)
RECURSIVE RunFrom(_, _)
RunFrom(txt, index) ==
    IF index < Len(txt) /\ is_word_component(txt[index + 1])
    THEN 1 + RunFrom(txt, index + 1)
    ELSE 0

(* The closure word_end_index: chars().nth(index - 1) is the character     *)
(* before index (none when index is past the text). It is called with      *)
(* index >= 1 only: for the start when n # 0, for the end with             *)
(* start + 2 * context where context > 0.                                  *)
word_end_index(txt, index) ==
    IF index >= 1 /\ index - 1 < Len(txt) /\ is_word_component(txt[index])
    THEN index + RunFrom(txt, index)
    ELSE index

saturating_sub(a, b) == IF a >= b THEN a - b ELSE 0

(* A crop at the match that counts the run only.                           *)
CropAtMatchRunOnly(txt, idx) == [start |-> idx, length |-> RunFrom(txt, idx)]

(* The branch context == 0 of aligned_crop.                                *)
CropAtMatch(txt, idx) == [start |-> idx, length |-> 1 + RunFrom(txt, idx)]

aligned_crop(txt, idx, ctx) ==
    IF ctx = 0 THEN CropAtMatch(txt, idx)
    ELSE LET n == saturating_sub(idx, ctx)
             start == IF n = 0 THEN n ELSE word_end_index(txt, n)
             end == word_end_index(txt, start + 2 * ctx)
         IN [start |-> start, length |-> end - start]

(* chars().skip(start).take(count)                                         *)
SkipTake(txt, start, count) ==
    SubSeq(txt, start + 1, IF start + count < Len(txt) THEN start + count ELSE Len(txt))

(* str::trim: white space removed at both ends.                            *)
RECURSIVE TrimStart(_)
TrimStart(txt) ==
    IF txt # <<>> /\ is_whitespace(Head(txt)) THEN TrimStart(Tail(txt)) ELSE txt

RECURSIVE TrimEnd(_)
TrimEnd(txt) ==
    IF txt # <<>> /\ is_whitespace(txt[Len(txt)])
    THEN TrimEnd(SubSeq(txt, 1, Len(txt) - 1))
    ELSE txt

trim(txt) == TrimEnd(TrimStart(txt))

U16 == 65536

Highlight(attr, idx, len) == [attribute |-> attr, char_index |-> idx, char_length |-> len]

(* take_while(|m| m.char_index + m.char_length <= start + context * 2)     *)
RECURSIVE TakeWhileInside(_, _)
TakeWhileInside(ms, limit) ==
    IF ms # <<>> /\ Head(ms).char_index + Head(ms).char_length <= limit
    THEN <<Head(ms)>> \o TakeWhileInside(Tail(ms), limit)
    ELSE <<>>

(* crop_text. char_index - start as u16 is a u16 subtraction: below zero   *)
(* it panics in a build with overflow checks and wraps in one without.     *)
crop_text(txt, ms, ctx, overflow_checks) ==
    LET char_index == IF ms # <<>> THEN Head(ms).char_index ELSE 0
        w == aligned_crop(txt, char_index, ctx)
        start == w.start
        kept == TakeWhileInside(ms, start + ctx * 2)
        start16 == start % U16
        under == \E i \in 1..Len(kept) : kept[i].char_index < start16
    IN [panic |-> under /\ overflow_checks,
        text |-> trim(SkipTake(txt, start, w.length)),
        matches |-> IF under /\ overflow_checks THEN <<>>
                    ELSE [i \in 1..Len(kept) |->
                            [kept[i] EXCEPT !.char_index =
                               (kept[i].char_index - start16) % U16]]]

AlignChars == {"a", "J", " ", "."}
CropChars == {"a", "J", " "}

HighlightLess(m1, m2) ==
    \/ m1.char_index < m2.char_index
    \/ m1.char_index = m2.char_index /\ m1.char_length <= m2.char_length

(* Match lists as crop_document hands them over: sorted by                 *)
(* (char_index, char_length).                                              *)
MatchLists(maxIndex, maxLen, n) ==
    {ms \in SeqUpTo({Highlight(0, i, l) : i \in 0..maxIndex, l \in 1..maxLen}, n) :
       \A i \in 1..(Len(ms) - 1) : HighlightLess(ms[i], ms[i + 1])}

NoWindow == [start |-> -1, length |-> -1]
NoCrop == [panic |-> FALSE, text |-> <<"?">>, matches |-> <<>>]

IdleCrop ==
    /\ text = <<>>
    /\ match_index = 0
    /\ context = 0
    /\ matches = <<>>
    /\ window = NoWindow
    /\ cropped = NoCrop

InitAlign ==
    /\ text \in SeqUpTo(AlignChars, MaxAlignLen)
    /\ match_index \in 0..MaxAlignLen
    /\ context \in 0..MaxContext
    /\ matches = <<>>
    /\ window = NoWindow
    /\ cropped = NoCrop

AlignedCrop ==
    /\ window = NoWindow
    /\ window' = aligned_crop(text, match_index, context)
    /\ UNCHANGED <<text, match_index, context, matches, cropped>>

InitCrop ==
    /\ text \in SeqUpTo(CropChars, MaxTextLen)
    /\ match_index = 0
    /\ context \in 0..MaxContext
    /\ matches \in MatchLists(MaxTextLen, MaxMatchLen, MaxMatches)
    /\ window = NoWindow
    /\ cropped = NoCrop

(* crop_document calls crop_text on a field; the build decides what a u16  *)
(* underflow does.                                                         *)
CropText ==
    /\ cropped = NoCrop
    /\ \E overflow_checks \in BOOLEAN :
         cropped' = crop_text(text, matches, context, overflow_checks)
    /\ UNCHANGED <<text, match_index, context, matches, window>>

----------------------------------------------------------------------------
(* Properties of aligned_crop, checked under SpecAlign *)

(* A word is a run of alphanumeric characters that are not CJK.            *)
InWord(c) == c = "a"

(* Position p (between the characters p - 1 and p, counted from 0) lies    *)
(* strictly inside a word of txt.                                          *)
InsideWord(txt, p) ==
    /\ 1 <= p
    /\ p < Len(txt)
    /\ InWord(txt[p])
    /\ InWord(txt[p + 1])

RECURSIVE WordRun(_, _)
WordRun(txt, p) ==
    IF p < Len(txt) /\ InWord(txt[p + 1]) THEN 1 + WordRun(txt, p + 1) ELSE 0

Called == window # NoWindow

TentativeStart == saturating_sub(match_index, context)

(* C8: with context > 0 neither edge of the window lies strictly inside a  *)
(* word; and an edge is moved only out of a word: a tentative edge that    *)
(* is not inside a word, such as one before or after a CJK character next  *)
(* to a Latin word, stays where it is.                                     *)
C8_NeverBisectsWord ==
    (Called /\ context > 0) =>
      /\ ~InsideWord(text, window.start)
      /\ ~InsideWord(text, window.start + window.length)
      /\ ~InsideWord(text, TentativeStart) => window.start = TentativeStart
      /\ ~InsideWord(text, window.start + 2 * context)
           => window.length = 2 * context

(* C8 witness: the tentative start fell inside a Latin word and was moved  *)
(* to its end, directly before a CJK character.                            *)
C8_Witness ==
    /\ Called
    /\ context > 0
    /\ InsideWord(text, TentativeStart)
    /\ window.start > TentativeStart
    /\ window.start < Len(text)
    /\ is_cjk(text[window.start + 1])
    /\ window.length = 2 * context

(* C9: with context = 0 and a text that is not empty, the window starts at *)
(* the match index and its length is one more than the run of word         *)
(* characters that begins at the match, so at least 1; a match inside the  *)
(* text gives at least one character.                                      *)
C9_ZeroContext ==
    (Called /\ context = 0 /\ text # <<>>) =>
      /\ window.start = match_index
      /\ window.length >= 1
      /\ window.length = 1 + WordRun(text, match_index)
      /\ match_index < Len(text)
           => SkipTake(text, window.start, window.length) # <<>>

(* C9 witness: a match on a CJK character gives a window of that one       *)
(* character.                                                              *)
C9_Witness ==
    /\ Called
    /\ context = 0
    /\ match_index < Len(text)
    /\ is_cjk(text[match_index + 1])
    /\ window = [start |-> match_index, length |-> 1]
    /\ SkipTake(text, window.start, window.length) = <<"J">>

(* C20: with context > 0 and the match inside the text, the window holds   *)
(* the character at the match: start <= match_index < start + length.      *)
C20_WindowContainsAnchor ==
    (Called /\ context > 0 /\ match_index < Len(text))
      => /\ window.start <= match_index
         /\ match_index < window.start + window.length

----------------------------------------------------------------------------
(* Properties of crop_text, checked under SpecCrop *)

Cropped == cropped # NoCrop

Anchor == IF matches # <<>> THEN matches[1].char_index ELSE 0

CropWindow == aligned_crop(text, Anchor, context)

InsideWindow(m) ==
    /\ CropWindow.start <= m.char_index
    /\ m.char_index + m.char_length <= CropWindow.start + CropWindow.length

RECURSIVE SelectInside(_)
SelectInside(ms) ==
    IF ms = <<>> THEN <<>>
    ELSE IF InsideWindow(Head(ms))
    THEN <<[Head(ms) EXCEPT !.char_index = Head(ms).char_index - CropWindow.start]>>
           \o SelectInside(Tail(ms))
    ELSE SelectInside(Tail(ms))

InText(m) == m.char_index + m.char_length <= Len(text)

(* C10: crop_text returns, remapped by - start, exactly the matches whose  *)
(* span lies inside the window of aligned_crop, for every context (stated  *)
(* here for matches that lie inside the text).                             *)
C10_KeepsMatchesInsideWindow ==
    (Cropped /\ ~cropped.panic /\ \A i \in 1..Len(matches) : InText(matches[i]))
      => cropped.matches = SelectInside(matches)

(* C12: crop_text completes for every text and every sorted match list:    *)
(* the subtraction char_index - start neither panics nor wraps, so no      *)
(* remapped index is greater than the index it was computed from.          *)
C12_BestEffort ==
    Cropped =>
      /\ ~cropped.panic
      /\ \A i \in 1..Len(cropped.matches) :
           cropped.matches[i].char_index <= matches[i].char_index

(* The characters a match designates in a text, when it lies inside it.    *)
Designated(txt, m) ==
    IF m.char_index + m.char_length <= Len(txt)
    THEN Some(SubSeq(txt, m.char_index + 1, m.char_index + m.char_length))
    ELSE None

(* A match on characters of the text none of which is white space.         *)
OnWord(m) ==
    /\ InText(m)
    /\ \A k \in (m.char_index + 1)..(m.char_index + m.char_length) :
         ~is_whitespace(text[k])

(* C19: every match kept by crop_text designates in the cropped text the   *)
(* characters it designated in the original text (stated for matches on    *)
(* words of the text and a window that starts at or before its anchor).    *)
C19_RemapAgreesWithText ==
    (/\ Cropped
     /\ ~cropped.panic
     /\ CropWindow.start <= Anchor
     /\ \A i \in 1..Len(matches) : OnWord(matches[i]))
      => \A i \in 1..Len(cropped.matches) :
           Designated(cropped.text, cropped.matches[i]) = Designated(text, matches[i])

----------------------------------------------------------------------------
(* calculate_highlights (meilisearch-http/src/helpers/meilisearch.rs) *)

FieldNames == {<<"a">>, <<"b">>}

(* An IndexMap or HashMap keyed by attribute name: the attributes given    *)
(* with Some value are present.                                            *)
MkMap(oa, ob) ==
    [n \in {m \in FieldNames : IsSome(IF m = <<"a">> THEN oa ELSE ob)} |->
       Unwrap(IF n = <<"a">> THEN oa ELSE ob)]

MatchPosition(s, l) == [start |-> s, length |-> l]

(* Ord for MatchPosition: by start, then by length.                        *)
cmp(m1, m2) ==
    IF m1.start < m2.start THEN "Less"
    ELSE IF m1.start > m2.start THEN "Greater"
    ELSE IF m1.length < m2.length THEN "Less"
    ELSE IF m1.length > m2.length THEN "Greater"
    ELSE "Equal"

(* Position lists as calculate_matches returns them.                       *)
PositionLists(maxStart, maxLen, n) ==
    {ps \in SeqUpTo({MatchPosition(s, l) : s \in 0..maxStart, l \in 1..maxLen}, n) :
       \A i \in 1..(Len(ps) - 1) : cmp(ps[i], ps[i + 1]) = "Less"}

(* slice.get(from..to): None unless from <= to <= len.                     *)
SliceGet(value, from, to) ==
    IF from <= to /\ to <= Len(value) THEN Some(SubSeq(value, from + 1, to)) ELSE None

(* A cursor that stays at the start of the match.                          *)
CursorAtStart(m) == m.start

(* index = m.start + m.length                                              *)
CursorAfter(m) == m.start + m.length

(* The loop over the matches of one attribute, from the cursor index on,   *)
(* and the tail appended after it: the highlighted value and the matches   *)
(* reported with error!.                                                   *)
RECURSIVE HighlightFrom(_, _, _)
HighlightFrom(value, ms, index) ==
    IF ms = <<>>
    THEN [out |-> SubSeq(value, index + 1, Len(value)), errors |-> <<>>]
    ELSE LET m == Head(ms) IN
         IF m.start >= index
         THEN LET before == SliceGet(value, index, m.start)
                  highlighted == SliceGet(value, m.start, m.start + m.length)
              IN  IF IsSome(before) /\ IsSome(highlighted)
                  THEN LET rest == HighlightFrom(value, Tail(ms), CursorAfter(m)) IN
                       [out |-> Unwrap(before) \o <<"<em>">> \o Unwrap(highlighted)
                                  \o <<"</em>">> \o rest.out,
                        errors |-> rest.errors]
                  ELSE LET rest == HighlightFrom(value, Tail(ms), index) IN
                       [out |-> rest.out, errors |-> <<m>> \o rest.errors]
         ELSE HighlightFrom(value, Tail(ms), index)

Highlighted(doc, ms, to_highlight, attribute) ==
    /\ attribute \in DOMAIN ms
    /\ attribute \in to_highlight
    /\ doc[attribute].kind = "String"

calculate_highlights(doc, ms, to_highlight) ==
    [attribute \in DOMAIN doc |->
       IF Highlighted(doc, ms, to_highlight, attribute)
       THEN JString(HighlightFrom(doc[attribute].s, ms[attribute], 0).out)
       ELSE doc[attribute]]

HlChars == {"a", "J"}

HlValues(n) == {JOther} \cup {JString(t) : t \in SeqUpTo(HlChars, n)}

NoFormatted == [called |-> FALSE, doc |-> <<>>]

IdleHighlight ==
    /\ document = <<>>
    /\ matches_info = <<>>
    /\ attributes_to_highlight = {}
    /\ formatted = NoFormatted

InitHighlight ==
    /\ \E oa \in {None} \cup {Some(v) : v \in HlValues(MaxHlLen)},
          ob \in {None, Some(JOther), Some(JString(<<"a">>))} :
         document = MkMap(oa, ob)
    /\ \E oa \in {None} \cup {Some(ps) : ps \in PositionLists(MaxHlLen, MaxMatchLen, MaxMatches)},
          ob \in {None, Some(<<MatchPosition(0, 1)>>)} :
         matches_info = MkMap(oa, ob)
    /\ attributes_to_highlight \in SUBSET FieldNames
    /\ formatted = NoFormatted

CalculateHighlights ==
    /\ ~formatted.called
    /\ formatted' = [called |-> TRUE,
                     doc |-> calculate_highlights(document, matches_info,
                                                  attributes_to_highlight)]
    /\ UNCHANGED <<document, matches_info, attributes_to_highlight>>

----------------------------------------------------------------------------
(* Properties of calculate_highlights, checked under SpecHighlight *)

IsMarker(c) == c \in {"<em>", "</em>"}

(* The value with the markers removed.                                     *)
Strip(out) == SelectSeq(out, LAMBDA c : ~IsMarker(c))

(* Number of characters of out before position i, markers not counted.     *)
TextBefore(out, i) == Len(Strip(SubSeq(out, 1, i - 1)))

(* The marker pairs of out: an opening marker at i and the first closing   *)
(* marker after it at j, with no marker between them.                      *)
MarkerPairs(out) ==
    {<<i, j>> \in (1..Len(out)) \X (1..Len(out)) :
       /\ i < j
       /\ out[i] = "<em>"
       /\ out[j] = "</em>"
       /\ \A k \in (i + 1)..(j - 1) : ~IsMarker(out[k])}

(* Every marker belongs to one pair.                                       *)
WellMarked(out) ==
    \A k \in 1..Len(out) :
      IsMarker(out[k]) => \E p \in MarkerPairs(out) : k \in {p[1], p[2]}

(* The spans of the text that out wraps, as (start, length).               *)
Spans(out) ==
    {MatchPosition(TextBefore(out, p[1]), p[2] - p[1] - 1) : p \in MarkerPairs(out)}

InRange(m, value) == m.start + m.length <= Len(value)

Overlap(m1, m2) ==
    /\ m1.start < m2.start + m2.length
    /\ m2.start < m1.start + m1.length

(* C11: for a highlighted text attribute the output without its markers   *)
(* is the input text, the markers come in pairs, every pair encloses       *)
(* text[start .. start + length] of one of the matches, and every match    *)
(* that is in range and overlaps no other match is enclosed by a pair;     *)
(* every other attribute is returned as it was.                            *)
C11_WrapsExactlyMatches ==
    formatted.called =>
      /\ DOMAIN formatted.doc = DOMAIN document
      /\ \A attribute \in DOMAIN document :
           IF Highlighted(document, matches_info, attributes_to_highlight, attribute)
           THEN LET value == document[attribute].s
                    ms == matches_info[attribute]
                    out == formatted.doc[attribute].s
                IN  /\ formatted.doc[attribute].kind = "String"
                    /\ Strip(out) = value
                    /\ WellMarked(out)
                    /\ \A p \in MarkerPairs(out) :
                         LET start == TextBefore(out, p[1])
                             length == p[2] - p[1] - 1
                         IN  /\ \E i \in 1..Len(ms) : ms[i] = MatchPosition(start, length)
                             /\ SubSeq(out, p[1] + 1, p[2] - 1)
                                  = SubSeq(value, start + 1, start + length)
                    /\ \A i \in 1..Len(ms) :
                         (/\ InRange(ms[i], value)
                          /\ \A j \in 1..Len(ms) : j # i => ~Overlap(ms[i], ms[j]))
                           => ms[i] \in Spans(out)
           ELSE formatted.doc[attribute] = document[attribute]

(* Two matches of one text are wrapped and characters are left outside.    *)
C11_Witness ==
    /\ formatted.called
    /\ <<"a">> \in DOMAIN document
    /\ Highlighted(document, matches_info, attributes_to_highlight, <<"a">>)
    /\ Cardinality(MarkerPairs(formatted.doc[<<"a">>].s)) = 2
    /\ Len(document[<<"a">>].s) = 3
    /\ <<"b">> \in DOMAIN document

----------------------------------------------------------------------------
(* calculate_matches (meilisearch-http/src/helpers/meilisearch.rs) *)

(* Schema::name: the inverse of Schema::id; no attribute has the id 2.     *)
SchemaName(id) ==
    IF id = 0 THEN Some(<<"a">>)
    ELSE IF id = 1 THEN Some(<<"b">>)
    ELSE None

(* Whether the loop records a position for the match m.                    *)
Recorded(m, to_retrieve, displayed_name) ==
    /\ IsSome(SchemaName(m.attribute))
    /\ IsSome(to_retrieve) => Unwrap(SchemaName(m.attribute)) \in Unwrap(to_retrieve)
    /\ Unwrap(SchemaName(m.attribute)) \in displayed_name

(* The positions pushed under one attribute name, in the order of the      *)
(* matches.                                                                *)
RECURSIVE Pushed(_, _, _, _)
Pushed(ms, to_retrieve, displayed_name, attribute) ==
    IF ms = <<>> THEN <<>>
    ELSE LET m == Head(ms)
             rest == Pushed(Tail(ms), to_retrieve, displayed_name, attribute)
         IN  IF Recorded(m, to_retrieve, displayed_name)
                  /\ SchemaName(m.attribute) = Some(attribute)
             THEN <<MatchPosition(m.char_index, m.char_length)>> \o rest
             ELSE rest

RECURSIVE InsertPosition(_, _)
InsertPosition(x, s) ==
    IF s = <<>> THEN <<x>>
    ELSE IF cmp(x, Head(s)) # "Greater" THEN <<x>> \o s
    ELSE <<Head(s)>> \o InsertPosition(x, Tail(s))

(* val.sort_unstable() on a Vec<MatchPosition>: ascending by cmp.          *)
RECURSIVE sort_unstable_positions(_)
sort_unstable_positions(v) ==
    IF v = <<>> THEN <<>>
    ELSE InsertPosition(Head(v), sort_unstable_positions(Tail(v)))

(* A dedup that removes nothing.                                           *)
dedup_none(v) == v

(* Vec::dedup: of consecutive equal elements the first is kept.            *)
RECURSIVE dedup(_)
dedup(v) ==
    IF Len(v) <= 1 THEN v
    ELSE IF v[1] = v[2] THEN dedup(Tail(v))
    ELSE <<v[1]>> \o dedup(Tail(v))

calculate_matches(ms, to_retrieve, displayed_name) ==
    [attribute \in {n \in FieldNames :
                      Pushed(ms, to_retrieve, displayed_name, n) # <<>>} |->
       dedup(sort_unstable_positions(Pushed(ms, to_retrieve, displayed_name, attribute)))]

HighlightSamples == {Highlight(attr, idx, len) : attr \in {0, 1, 2}, idx \in {0, 1}, len \in {1, 2}}

NoMatchesResult == [called |-> FALSE, map |-> <<>>]

IdleMatches ==
    /\ highlights = <<>>
    /\ attributes_to_retrieve = None
    /\ displayed = {}
    /\ matches_result = NoMatchesResult

InitMatches ==
    /\ \E n \in 0..MaxHighlights : highlights \in [1..n -> HighlightSamples]
    /\ attributes_to_retrieve \in {None} \cup {Some(S) : S \in SUBSET FieldNames}
    /\ displayed \in SUBSET FieldNames
    /\ matches_result = NoMatchesResult

CalculateMatches ==
    /\ ~matches_result.called
    /\ matches_result' = [called |-> TRUE,
                          map |-> calculate_matches(highlights, attributes_to_retrieve,
                                                    displayed)]
    /\ UNCHANGED <<highlights, attributes_to_retrieve, displayed>>

----------------------------------------------------------------------------
(* Properties of calculate_matches, checked under SpecMatches *)

(* C13: every position list returned by calculate_matches is ascending by  *)
(* (start, length) and holds no (start, length) pair twice.                *)
C13_SortedNoDuplicates ==
    matches_result.called =>
      \A attribute \in DOMAIN matches_result.map :
        LET v == matches_result.map[attribute] IN
        \A i \in 1..Len(v), j \in 1..Len(v) : i < j => cmp(v[i], v[j]) = "Less"

(* Matches of the attribute a given in descending order with one of them   *)
(* twice: two positions are returned.                                      *)
C13_Witness ==
    /\ matches_result.called
    /\ Len(highlights) = 3
    /\ \A i \in 1..3 : highlights[i].attribute = 0
    /\ highlights[1] = highlights[3]
    /\ highlights[2].char_index < highlights[1].char_index
    /\ <<"a">> \in DOMAIN matches_result.map
    /\ Len(matches_result.map[<<"a">>]) = 2

----------------------------------------------------------------------------
(* FacetKey (meilisearch-core/src/store/facets.rs) *)

KeyPending == [status |-> "pending", key |-> None]
KeyPanic == [status |-> "panic", key |-> None]

(* FacetKey::new: the body is todo!(), which panics ("not yet              *)
(* implemented") whatever the arguments.                                   *)
FacetKey_new(id, val) == KeyPanic

ValueChars == {"a", "b", "1"}

IdleKey ==
    /\ key_field = 0
    /\ key_value = <<>>
    /\ new_key = KeyPending

InitKey ==
    /\ key_field \in {0, 1}
    /\ \E n \in 0..MaxValueLen : key_value \in [1..n -> ValueChars]
    /\ new_key = KeyPending

FacetKeyNew ==
    /\ new_key = KeyPending
    /\ new_key' = FacetKey_new(key_field, key_value)
    /\ UNCHANGED <<key_field, key_value>>

----------------------------------------------------------------------------
(* Properties of FacetKey, checked under SpecKey *)

(* C14: FacetKey::new returns a key for every (field_id, value) pair.      *)
C14_KeyConstructed ==
    new_key # KeyPending => (new_key.status = "Ok" /\ IsSome(new_key.key))

----------------------------------------------------------------------------
(* The distinct predicate of SearchBuilder::search                          *)
(* (meilisearch-http/src/helpers/meilisearch.rs)                            *)

CandidateIds == 1..MaxCandidates

AttributeBytes == {"b1", "b2"}
HashValues == {"h1", "h2"}

(* Index::document_attribute_bytes: Ok(Some(bytes)), Ok(None) or Err.      *)
ReadOk(ob) == [res |-> "Ok", bytes |-> ob]
ReadErr == [res |-> "Err", bytes |-> None]
ReadResults == {ReadOk(Some(b)) : b \in AttributeBytes} \cup {ReadOk(None), ReadErr}

(* A closure that gives unreadable attributes a key of their own.          *)
distinct_key_default(read, hash) ==
    IF read.res = "Ok" /\ IsSome(read.bytes)
    THEN Some(hash[Unwrap(read.bytes)])
    ELSE Some("h1")

(* The closure given to with_distinct: the SipHash of the bytes, None for  *)
(* Ok(None) and Err.                                                       *)
distinct_key(read, hash) ==
    IF read.res = "Ok" /\ IsSome(read.bytes)
    THEN Some(hash[Unwrap(read.bytes)])
    ELSE None

(* QueryBuilder::with_distinct(1, f): of the candidates, in ranked order,  *)
(* at most one with a given key passes; a candidate with no key passes.    *)
RECURSIVE RetainDistinct(_, _, _)
RetainDistinct(cands, keys, seen) ==
    IF cands = <<>> THEN <<>>
    ELSE LET id == Head(cands)
             k == keys[id]
         IN  IF IsSome(k) /\ Unwrap(k) \in seen
             THEN RetainDistinct(Tail(cands), keys, seen)
             ELSE <<id>> \o RetainDistinct(Tail(cands), keys,
                                           IF IsSome(k) THEN seen \cup {Unwrap(k)} ELSE seen)

(* Sequences of distinct candidates, as the ranking orders them.           *)
RankedLists(n) ==
    {c \in SeqUpTo(CandidateIds, n) : \A i, j \in 1..Len(c) : i # j => c[i] # c[j]}

NoKeys == [id \in CandidateIds |-> None]

IdleDistinct ==
    /\ distinct_attribute = ReadOk(None)
    /\ attribute_bytes = [id \in CandidateIds |-> ReadOk(None)]
    /\ sip = [b \in AttributeBytes |-> "h1"]
    /\ ranked = <<>>
    /\ with_distinct = "pending"
    /\ group_keys = NoKeys
    /\ docs = <<>>

(* distinct_attribute(reader) gives Err, no attribute, an attribute the    *)
(* schema knows or one it does not know.                                   *)
InitDistinct ==
    /\ distinct_attribute \in {ReadErr, ReadOk(None), ReadOk(Some(<<"a">>)),
                               ReadOk(Some(<<"x">>))}
    /\ attribute_bytes \in [CandidateIds -> ReadResults]
    /\ sip \in [AttributeBytes -> HashValues]
    /\ ranked \in RankedLists(MaxCandidates)
    /\ with_distinct = "pending"
    /\ group_keys = NoKeys
    /\ docs = <<>>

(* search, up to the installation of the distinct closure.                 *)
InstallDistinct ==
    /\ with_distinct = "pending"
    /\ with_distinct' =
         IF distinct_attribute.res = "Err" THEN "Err"
         ELSE IF IsSome(distinct_attribute.bytes)
                   /\ IsSome(SchemaId(Unwrap(distinct_attribute.bytes)))
         THEN "installed"
         ELSE "none"
    /\ UNCHANGED <<distinct_attribute, attribute_bytes, sip, ranked, group_keys, docs>>

(* query_builder.query: the ranking engine calls the closure on the        *)
(* candidates and keeps one document per key.                              *)
Query ==
    /\ with_distinct \in {"installed", "none"}
    /\ IF with_distinct = "installed"
       THEN LET keys == [id \in CandidateIds |-> distinct_key(attribute_bytes[id], sip)] IN
            /\ group_keys' = keys
            /\ docs' = RetainDistinct(ranked, keys, {})
       ELSE /\ group_keys' = group_keys
            /\ docs' = ranked
    /\ with_distinct' = IF with_distinct = "installed" THEN "queried" ELSE "queried_all"
    /\ UNCHANGED <<distinct_attribute, attribute_bytes, sip, ranked>>

SearchDistinct ==
    \/ InstallDistinct
    \/ Query

----------------------------------------------------------------------------
(* Properties of the distinct predicate, checked under SpecDistinct *)

Readable(id) == attribute_bytes[id].res = "Ok" /\ IsSome(attribute_bytes[id].bytes)

InSeq(x, q) == \E i \in 1..Len(q) : q[i] = x

(* Position of x in the sequence q that holds it.                          *)
Rank(x, q) == CHOOSE i \in 1..Len(q) : q[i] = x

(* C15: once the query ran with the distinct closure, a candidate has a    *)
(* key exactly when its attribute bytes were read, candidates with equal   *)
(* bytes have equal keys, a key has one hit, the highest ranked of the     *)
(* candidates with this key, and every candidate without key is a hit.     *)
C15_DistinctKeepsBestPerKey ==
    with_distinct = "queried" =>
      /\ \A id \in CandidateIds : IsSome(group_keys[id]) <=> Readable(id)
      /\ \A i, j \in CandidateIds :
           (Readable(i) /\ Readable(j)
              /\ attribute_bytes[i].bytes = attribute_bytes[j].bytes)
             => group_keys[i] = group_keys[j]
      /\ \A i \in 1..Len(docs) : InSeq(docs[i], ranked)
      /\ \A i, j \in 1..Len(docs) : i < j => Rank(docs[i], ranked) < Rank(docs[j], ranked)
      /\ \A i \in 1..Len(ranked) :
           LET id == ranked[i] IN
           IF IsSome(group_keys[id])
           THEN InSeq(id, docs) <=>
                  \A j \in 1..(i - 1) : group_keys[ranked[j]] # group_keys[id]
           ELSE InSeq(id, docs)

(* Two candidates share a key and the lower ranked is dropped, while two   *)
(* candidates without a key are both kept.                                 *)
C15_Witness ==
    /\ with_distinct = "queried"
    /\ Len(ranked) = MaxCandidates
    /\ \E i, j \in CandidateIds :
         /\ i # j
         /\ IsSome(group_keys[i])
         /\ group_keys[i] = group_keys[j]
         /\ attribute_bytes[i].bytes # attribute_bytes[j].bytes
         /\ InSeq(i, docs)
         /\ ~InSeq(j, docs)
    /\ \E i \in CandidateIds : ~Readable(i) /\ InSeq(i, docs)

----------------------------------------------------------------------------
(* SearchBuilder::get_criteria (meilisearch-http/src/helpers/meilisearch.rs) *)

Rule(k, f) == [kind |-> k, field |-> f]

PlainRules ==
    {Rule(k, <<>>) : k \in {"Typo", "Words", "Proximity", "Attribute",
                            "WordsPosition", "Exactness"}}

(* Asc and Desc on an attribute of the schema and on one it does not know. *)
SortRules == {Rule(k, f) : k \in {"Asc", "Desc"}, f \in {<<"a">>, <<"x">>}}

RankingRules == PlainRules \cup SortRules

(* SortByAttr::lower_is_better / higher_is_better: Ok when the attribute   *)
(* is in the schema and ranked, Err otherwise.                             *)
SortByAttr(rule, ranked_attrs) ==
    IF IsSome(SchemaId(rule.field)) /\ rule.field \in ranked_attrs
    THEN Some([kind |-> IF rule.kind = "Asc" THEN "lower_is_better" ELSE "higher_is_better",
               field |-> rule.field])
    ELSE None

(* A match that builds no criterion for Asc and Desc.                      *)
CriterionPlainOnly(rule, ranked_attrs) ==
    IF rule \in PlainRules THEN Some(rule) ELSE None

(* One arm of the match on the rule: the criterion pushed, or None when    *)
(* the error is logged.                                                    *)
Criterion(rule, ranked_attrs) ==
    IF rule \in PlainRules THEN Some(rule) ELSE SortByAttr(rule, ranked_attrs)

(* The for loop over the rules: the builder and the errors logged.         *)
RECURSIVE PushRules(_, _)
PushRules(rules, ranked_attrs) ==
    IF rules = <<>> THEN [builder |-> <<>>, errors |-> <<>>]
    ELSE LET c == Criterion(Head(rules), ranked_attrs)
             rest == PushRules(Tail(rules), ranked_attrs)
         IN  IF IsSome(c)
             THEN [builder |-> <<Unwrap(c)>> \o rest.builder, errors |-> rest.errors]
             ELSE [builder |-> rest.builder, errors |-> <<Head(rules)>> \o rest.errors]

CriteriaPending == [status |-> "pending", chain |-> <<>>, errors |-> <<>>]

(* ranking_rules is what main.ranking_rules(reader) gives: Err, Ok(None)   *)
(* or Ok(Some(rules)).                                                     *)
get_criteria(rules, ranked_attrs) ==
    IF rules.res = "Err" THEN [status |-> "Err", chain |-> <<>>, errors |-> <<>>]
    ELSE IF IsSome(rules.bytes)
    THEN LET pushed == PushRules(Unwrap(rules.bytes), ranked_attrs) IN
         [status |-> "Some",
          chain |-> pushed.builder \o <<Rule("DocumentId", <<>>)>>,
          errors |-> pushed.errors]
    ELSE [status |-> "None", chain |-> <<>>, errors |-> <<>>]

IdleCriteria ==
    /\ ranking_rules = ReadOk(None)
    /\ ranked_map = {}
    /\ criteria = CriteriaPending
    /\ query_builder = "pending"

InitCriteria ==
    /\ \/ ranking_rules \in {ReadErr, ReadOk(None)}
       \/ \E n \in 0..MaxRules : \E rules \in [1..n -> RankingRules] :
            ranking_rules = ReadOk(Some(rules))
    /\ ranked_map \in SUBSET {<<"a">>}
    /\ criteria = CriteriaPending
    /\ query_builder = "pending"

(* search: the criteria are built and the query builder is chosen; an Err  *)
(* of get_criteria is returned by search.                                  *)
GetCriteria ==
    /\ criteria = CriteriaPending
    /\ criteria' = get_criteria(ranking_rules, ranked_map)
    /\ query_builder' =
         IF criteria'.status = "Some" THEN "query_builder_with_criteria"
         ELSE IF criteria'.status = "None" THEN "query_builder"
         ELSE "Err"
    /\ UNCHANGED <<ranking_rules, ranked_map>>

----------------------------------------------------------------------------
(* Properties of get_criteria, checked under SpecCriteria *)

Resolves(rule) == rule \in PlainRules \/ rule.field \in ranked_map

Expected(rule) ==
    IF rule.kind = "Asc" THEN [kind |-> "lower_is_better", field |-> rule.field]
    ELSE IF rule.kind = "Desc" THEN [kind |-> "higher_is_better", field |-> rule.field]
    ELSE rule

(* C16: with ranking rules configured the chain is, in the configured      *)
(* order, the criterion of every rule that resolves, followed by the       *)
(* DocumentId criterion; every sort rule that does not resolve is logged   *)
(* and the query is built with this chain; with no rules configured the    *)
(* default query builder is used.                                          *)
C16_CriteriaInRuleOrder ==
    /\ (criteria.status # "pending" /\ ranking_rules.res = "Ok"
          /\ IsSome(ranking_rules.bytes))
         => LET rules == Unwrap(ranking_rules.bytes)
                kept == SelectSeq(rules, Resolves)
                omitted == SelectSeq(rules, LAMBDA r : ~Resolves(r))
            IN  /\ criteria.status = "Some"
                /\ query_builder = "query_builder_with_criteria"
                /\ Len(criteria.chain) = Len(kept) + 1
                /\ \A i \in 1..Len(kept) : criteria.chain[i] = Expected(kept[i])
                /\ criteria.chain[Len(kept) + 1] = Rule("DocumentId", <<>>)
                /\ criteria.errors = omitted
    /\ (criteria.status # "pending" /\ ranking_rules = ReadOk(None))
         => (criteria.status = "None" /\ query_builder = "query_builder")

(* A sort rule that does not resolve stands between a plain rule and a     *)
(* sort rule that resolves: the chain holds the two others and DocumentId. *)
C16_Witness ==
    /\ criteria.status = "Some"
    /\ IsSome(ranking_rules.bytes)
    /\ Len(Unwrap(ranking_rules.bytes)) = 3
    /\ Unwrap(ranking_rules.bytes)[1] \in PlainRules
    /\ Unwrap(ranking_rules.bytes)[2] = Rule("Asc", <<"x">>)
    /\ Unwrap(ranking_rules.bytes)[3] = Rule("Desc", <<"a">>)
    /\ Len(criteria.chain) = 3
    /\ Len(criteria.errors) = 1

----------------------------------------------------------------------------
(* crop_document (meilisearch-http/src/helpers/meilisearch.rs) *)

SortKeyLeq(m1, m2) ==
    \/ m1.char_index < m2.char_index
    \/ m1.char_index = m2.char_index /\ m1.char_length <= m2.char_length

Occurrences(x, q) == Cardinality({i \in 1..Len(q) : q[i] = x})

(* matches.sort_unstable_by_key(|m| (m.char_index, m.char_length)): every  *)
(* arrangement of the matches that is ascending by the key; the order of   *)
(* matches with equal keys is not determined.                              *)
sort_unstable_by_key(ms) ==
    {q \in [1..Len(ms) -> {ms[i] : i \in 1..Len(ms)}] :
       /\ \A i \in 1..Len(ms) : Occurrences(ms[i], q) = Occurrences(ms[i], ms)
       /\ \A i \in 1..(Len(q) - 1) : SortKeyLeq(q[i], q[i + 1])}

(* The orders in which the HashMap fields yields its entries.              *)
IterationOrders(S) ==
    {q \in [1..Cardinality(S) -> S] : \A i, j \in 1..Cardinality(S) : i # j => q[i] # q[j]}

OfAttribute(ms, attribute) == SelectSeq(ms, LAMBDA m : m.attribute = attribute)

(* A retain that keeps nothing.                                            *)
RetainNone(ms, attribute) == <<>>

(* matches.retain(|m| FieldId::new(m.attribute) != attribute)              *)
Retain(ms, attribute) == SelectSeq(ms, LAMBDA m : m.attribute # attribute)

(* One turn of the for loop, on the state st of document and matches.      *)
CropField(st, field, length, overflow_checks) ==
    IF st.panic \/ ~IsSome(SchemaId(field)) THEN st
    ELSE LET attribute == Unwrap(SchemaId(field))
             selected_matches == OfAttribute(st.matches, attribute)
         IN  IF field \in DOMAIN st.document /\ st.document[field].kind = "String"
             THEN LET c == crop_text(st.document[field].s, selected_matches, length,
                                     overflow_checks)
                  IN  IF c.panic THEN [st EXCEPT !.panic = TRUE]
                      ELSE [panic |-> FALSE,
                            document |-> [st.document EXCEPT ![field] = JString(c.text)],
                            matches |-> Retain(st.matches, attribute) \o c.matches]
             ELSE st

RECURSIVE CropFields(_, _, _, _)
CropFields(st, order, lengths, overflow_checks) ==
    IF order = <<>> THEN st
    ELSE CropFields(CropField(st, Head(order), lengths[Head(order)], overflow_checks),
                    Tail(order), lengths, overflow_checks)

(* crop_document on the sorted matches, with the fields taken in order.    *)
crop_document(doc, sorted, lengths, order, overflow_checks) ==
    CropFields([panic |-> FALSE, document |-> doc, matches |-> sorted],
               order, lengths, overflow_checks)

CropDocChars == {"a", " "}

(* Matches of the attributes a and b and of an attribute the schema does   *)
(* not know.                                                               *)
CropDocSamples ==
    {Highlight(0, 0, 1), Highlight(0, 2, 1), Highlight(1, 0, 1), Highlight(2, 0, 1)}

(* The crop lengths asked for: any length for a, one length for b and for  *)
(* x, which the schema does not know.                                      *)
MkFields(oa, ob, ox) ==
    [n \in {m \in {<<"a">>, <<"b">>, <<"x">>} :
              IsSome(IF m = <<"a">> THEN oa ELSE IF m = <<"b">> THEN ob ELSE ox)} |->
       Unwrap(IF n = <<"a">> THEN oa ELSE IF n = <<"b">> THEN ob ELSE ox)]

NoCropResult == [called |-> FALSE, panic |-> FALSE, document |-> <<>>, matches |-> <<>>]

IdleCropDoc ==
    /\ crop_formatted = <<>>
    /\ crop_matches = <<>>
    /\ fields = <<>>
    /\ crop_result = NoCropResult

InitCropDoc ==
    /\ \E oa \in {None, Some(JOther)}
                   \cup {Some(JString(t)) : t \in SeqUpTo(CropDocChars, MaxHlLen)},
          ob \in {None, Some(JOther), Some(JString(<<"a", " ", "a">>))} :
         crop_formatted = MkMap(oa, ob)
    /\ \E n \in 0..MaxMatches : crop_matches \in [1..n -> CropDocSamples]
    /\ \E oa \in {None} \cup {Some(l) : l \in 0..MaxContext},
          ob \in {None, Some(1)}, ox \in {None, Some(1)} :
         fields = MkFields(oa, ob, ox)
    /\ crop_result = NoCropResult

CropDocument ==
    /\ ~crop_result.called
    /\ \E sorted \in sort_unstable_by_key(crop_matches),
          order \in IterationOrders(DOMAIN fields),
          overflow_checks \in BOOLEAN :
         LET r == crop_document(crop_formatted, sorted, fields, order, overflow_checks) IN
         crop_result' = [called |-> TRUE, panic |-> r.panic,
                         document |-> r.document, matches |-> r.matches]
    /\ UNCHANGED <<crop_formatted, crop_matches, fields>>

----------------------------------------------------------------------------
(* Properties of crop_document, checked under SpecCropDoc *)

(* The field is asked for, known to the schema and holds text.             *)
IsCropped(field) ==
    /\ field \in DOMAIN fields
    /\ IsSome(SchemaId(field))
    /\ field \in DOMAIN crop_formatted
    /\ crop_formatted[field].kind = "String"

(* The matches of one attribute, ascending by (char_index, char_length).   *)
SortedOf(attribute) ==
    CHOOSE q \in sort_unstable_by_key(OfAttribute(crop_matches, attribute)) : TRUE

(* C17: when crop_document returns, a field that is asked for, known to    *)
(* the schema and holds text has the cropped text and its matches are the  *)
(* remapped ones; every other field of the document is as it was, and the  *)
(* matches of every other attribute are the ones given, in sorted order.   *)
C17_CropsOnlyRequested ==
    (crop_result.called /\ ~crop_result.panic) =>
      /\ DOMAIN crop_result.document = DOMAIN crop_formatted
      /\ \A field \in DOMAIN crop_formatted :
           IF IsCropped(field)
           THEN \E overflow_checks \in BOOLEAN :
                  LET c == crop_text(crop_formatted[field].s,
                                     SortedOf(Unwrap(SchemaId(field))),
                                     fields[field], overflow_checks)
                  IN  /\ ~c.panic
                      /\ crop_result.document[field] = JString(c.text)
                      /\ OfAttribute(crop_result.matches, Unwrap(SchemaId(field)))
                           = c.matches
           ELSE crop_result.document[field] = crop_formatted[field]
      /\ \A attribute \in {0, 1, 2} :
           (\A field \in DOMAIN crop_formatted :
              IsCropped(field) => SchemaId(field) # Some(attribute))
             => OfAttribute(crop_result.matches, attribute) = SortedOf(attribute)

(* The text of a is cropped and its match remapped, while b, which is not  *)
(* asked for, keeps its text and its match, and a field unknown to the     *)
(* schema is asked for.                                                    *)
C17_Witness ==
    /\ crop_result.called
    /\ ~crop_result.panic
    /\ IsCropped(<<"a">>)
    /\ <<"x">> \in DOMAIN fields
    /\ <<"b">> \in DOMAIN crop_formatted
    /\ <<"b">> \notin DOMAIN fields
    /\ crop_result.document[<<"a">>] # crop_formatted[<<"a">>]
    /\ OfAttribute(crop_matches, 0) # <<>>
    /\ \A i \in 1..Len(crop_matches) :
         crop_matches[i].attribute = 0
           => crop_matches[i].char_index < Len(crop_formatted[<<"a">>].s)
    /\ OfAttribute(crop_result.matches, 0) # <<>>
    /\ \A i \in 1..Len(crop_result.matches) :
         crop_result.matches[i].char_index < Len(crop_formatted[<<"a">>].s)
    /\ OfAttribute(crop_result.matches, 0) # OfAttribute(crop_matches, 0)
    /\ OfAttribute(crop_matches, 1) # <<>>

----------------------------------------------------------------------------
(* attributesToCrop in search_with_url_query                                *)
(* (meilisearch-http/src/routes/search.rs)                                  *)

(* str::split(sep): the segments between the separators, empty ones kept.  *)
RECURSIVE SplitOnFrom(_, _, _)
SplitOnFrom(str, sep, cur) ==
    IF str = <<>> THEN <<cur>>
    ELSE IF Head(str) = sep THEN <<cur>> \o SplitOnFrom(Tail(str), sep, <<>>)
    ELSE SplitOnFrom(Tail(str), sep, Append(cur, Head(str)))

SplitOn(str, sep) == SplitOnFrom(str, sep, <<>>)

(* The decimal value of a string of digits; "1" is the digit of the model. *)
RECURSIVE DecimalValue(_)
DecimalValue(str) ==
    IF str = <<>> THEN 0 ELSE 10 * DecimalValue(SubSeq(str, 1, Len(str) - 1)) + 1

(* s.parse::<usize>().ok(): Some for a non-empty string of digits.         *)
ParseUsize(str) ==
    IF str # <<>> /\ \A i \in 1..Len(str) : str[i] = "1"
    THEN Some(DecimalValue(str))
    ELSE None

DefaultCropLength == 200

(* attribute.split(':'): attr is the first segment, length the second one  *)
(* parsed, when there is one and it parses.                                *)
Selector(attribute) ==
    LET parts == SplitOn(attribute, ":") IN
    [attr |-> parts[1],
     length |-> IF Len(parts) >= 2 THEN ParseUsize(parts[2]) ELSE None]

(* HashMap::insert: the value of an existing key is replaced.              *)
Insert(map, key, val) ==
    [k \in DOMAIN map \cup {key} |-> IF k = key THEN val ELSE map[k]]

InsertAll(map, keys, val) ==
    [k \in DOMAIN map \cup keys |-> IF k \in keys THEN val ELSE map[k]]

(* The for loop over the selectors, from the map built so far.             *)
RECURSIVE CropSelectors(_, _, _, _, _)
CropSelectors(selectors, map, default_length, available, restricted) ==
    IF selectors = <<>> THEN map
    ELSE LET sel == Selector(Head(selectors))
             length == IF IsSome(sel.length) THEN Unwrap(sel.length) ELSE default_length
             next == IF sel.attr = <<"*">> THEN InsertAll(map, restricted, length)
                     ELSE IF sel.attr \in available THEN Insert(map, sel.attr, length)
                     ELSE map
         IN  CropSelectors(Tail(selectors), next, default_length, available, restricted)

final_attributes(param, length, available, restricted) ==
    CropSelectors(SplitOn(param, ","), <<>>,
                  IF IsSome(length) THEN Unwrap(length) ELSE DefaultCropLength,
                  available, restricted)

SelectorChars == {"a", "b", "*", ":", ",", "1"}

NoFinalAttributes == [called |-> FALSE, map |-> <<>>]

IdleSelectors ==
    /\ attributes_to_crop = <<>>
    /\ crop_length = None
    /\ available_attributes = {}
    /\ restricted_attributes = {}
    /\ to_crop = NoFinalAttributes

(* restricted_attributes is the displayed attributes, or the ones of them  *)
(* named by attributesToRetrieve.                                          *)
InitSelectors ==
    /\ \E n \in 0..MaxSelectorLen : attributes_to_crop \in [1..n -> SelectorChars]
    /\ crop_length \in {None, Some(3)}
    /\ available_attributes \in SUBSET FieldNames
    /\ restricted_attributes \in SUBSET available_attributes
    /\ to_crop = NoFinalAttributes

AttributesToCrop ==
    /\ ~to_crop.called
    /\ to_crop' = [called |-> TRUE,
                   map |-> final_attributes(attributes_to_crop, crop_length,
                                            available_attributes, restricted_attributes)]
    /\ UNCHANGED <<attributes_to_crop, crop_length, available_attributes,
                   restricted_attributes>>

----------------------------------------------------------------------------
(* Properties of attributesToCrop, checked under SpecSelectors *)

Selectors == SplitOn(attributes_to_crop, ",")

(* The i-th selector names a displayed attribute and gives it a length.    *)
ExplicitLength(i) ==
    /\ Selector(Selectors[i]).attr \in available_attributes
    /\ IsSome(Selector(Selectors[i]).length)

(* C21: a displayed attribute that one selector of the list names, with a  *)
(* length, is cropped with that length, whatever the other selectors are   *)
(* and wherever they stand.                                                *)
C21_ExplicitLengthWins ==
    to_crop.called =>
      \A i \in 1..Len(Selectors) :
        (/\ ExplicitLength(i)
         /\ \A j \in 1..Len(Selectors) :
              j # i => Selector(Selectors[j]).attr # Selector(Selectors[i]).attr)
          => /\ Selector(Selectors[i]).attr \in DOMAIN to_crop.map
             /\ to_crop.map[Selector(Selectors[i]).attr]
                  = Unwrap(Selector(Selectors[i]).length)

----------------------------------------------------------------------------
(* Specifications *)

NextFacets ==
    \/ BeginWrite
    \/ PutFacets
    \/ UpdateStart
    \/ UpdateStep
    \/ Commit
    \/ Abort
    \/ BeginRead
    \/ EndRead
    \/ DocumentIds

Next ==
    NextFacets
      /\ UNCHANGED <<parseVars, cropVars, highlightVars, matchesVars, keyVars,
                distinctVars, criteriaVars, cropDocVars, selectorVars>>

Init ==
    InitFacets /\ IdleParse /\ IdleCrop /\ IdleHighlight /\ IdleMatches
      /\ IdleKey /\ IdleDistinct /\ IdleCriteria /\ IdleCropDoc
      /\ IdleSelectors

Spec == Init /\ [][Next]_vars

NextParse ==
    ParseFacetFilters
      /\ UNCHANGED <<facetVars, cropVars, highlightVars, matchesVars, keyVars,
                distinctVars, criteriaVars, cropDocVars, selectorVars>>

InitSpecParse ==
    InitFacets /\ InitParse /\ IdleCrop /\ IdleHighlight /\ IdleMatches
      /\ IdleKey /\ IdleDistinct /\ IdleCriteria /\ IdleCropDoc
      /\ IdleSelectors

SpecParse == InitSpecParse /\ [][NextParse]_vars

NextAlign ==
    AlignedCrop
      /\ UNCHANGED <<facetVars, parseVars, highlightVars, matchesVars, keyVars,
                distinctVars, criteriaVars, cropDocVars, selectorVars>>

InitSpecAlign ==
    InitFacets /\ IdleParse /\ InitAlign /\ IdleHighlight /\ IdleMatches
      /\ IdleKey /\ IdleDistinct /\ IdleCriteria /\ IdleCropDoc
      /\ IdleSelectors

SpecAlign == InitSpecAlign /\ [][NextAlign]_vars

NextCrop ==
    CropText
      /\ UNCHANGED <<facetVars, parseVars, highlightVars, matchesVars, keyVars,
                distinctVars, criteriaVars, cropDocVars, selectorVars>>

InitSpecCrop ==
    InitFacets /\ IdleParse /\ InitCrop /\ IdleHighlight /\ IdleMatches
      /\ IdleKey /\ IdleDistinct /\ IdleCriteria /\ IdleCropDoc
      /\ IdleSelectors

SpecCrop == InitSpecCrop /\ [][NextCrop]_vars

NextHighlight ==
    CalculateHighlights
      /\ UNCHANGED <<facetVars, parseVars, cropVars, matchesVars, keyVars,
                distinctVars, criteriaVars, cropDocVars, selectorVars>>

InitSpecHighlight ==
    InitFacets /\ IdleParse /\ IdleCrop /\ InitHighlight /\ IdleMatches
      /\ IdleKey /\ IdleDistinct /\ IdleCriteria /\ IdleCropDoc
      /\ IdleSelectors

SpecHighlight == InitSpecHighlight /\ [][NextHighlight]_vars

NextMatches ==
    CalculateMatches
      /\ UNCHANGED <<facetVars, parseVars, cropVars, highlightVars, keyVars,
                distinctVars, criteriaVars, cropDocVars, selectorVars>>

InitSpecMatches ==
    InitFacets /\ IdleParse /\ IdleCrop /\ IdleHighlight /\ InitMatches
      /\ IdleKey /\ IdleDistinct /\ IdleCriteria /\ IdleCropDoc
      /\ IdleSelectors

SpecMatches == InitSpecMatches /\ [][NextMatches]_vars

NextKey ==
    FacetKeyNew
      /\ UNCHANGED <<facetVars, parseVars, cropVars, highlightVars, matchesVars,
                distinctVars, criteriaVars, cropDocVars, selectorVars>>

InitSpecKey ==
    InitFacets /\ IdleParse /\ IdleCrop /\ IdleHighlight /\ IdleMatches
      /\ InitKey /\ IdleDistinct /\ IdleCriteria /\ IdleCropDoc
      /\ IdleSelectors

SpecKey == InitSpecKey /\ [][NextKey]_vars

NextDistinct ==
    SearchDistinct
      /\ UNCHANGED <<facetVars, parseVars, cropVars, highlightVars, matchesVars,
                keyVars, criteriaVars, cropDocVars, selectorVars>>

InitSpecDistinct ==
    InitFacets /\ IdleParse /\ IdleCrop /\ IdleHighlight /\ IdleMatches
      /\ IdleKey /\ InitDistinct /\ IdleCriteria /\ IdleCropDoc
      /\ IdleSelectors

SpecDistinct == InitSpecDistinct /\ [][NextDistinct]_vars

NextCriteria ==
    GetCriteria
      /\ UNCHANGED <<facetVars, parseVars, cropVars, highlightVars, matchesVars,
                keyVars, distinctVars, cropDocVars, selectorVars>>

InitSpecCriteria ==
    InitFacets /\ IdleParse /\ IdleCrop /\ IdleHighlight /\ IdleMatches
      /\ IdleKey /\ IdleDistinct /\ InitCriteria /\ IdleCropDoc
      /\ IdleSelectors

SpecCriteria == InitSpecCriteria /\ [][NextCriteria]_vars

NextCropDoc ==
    CropDocument
      /\ UNCHANGED <<facetVars, parseVars, cropVars, highlightVars, matchesVars,
                keyVars, distinctVars, criteriaVars, selectorVars>>

InitSpecCropDoc ==
    InitFacets /\ IdleParse /\ IdleCrop /\ IdleHighlight /\ IdleMatches
      /\ IdleKey /\ IdleDistinct /\ IdleCriteria /\ InitCropDoc
      /\ IdleSelectors

SpecCropDoc == InitSpecCropDoc /\ [][NextCropDoc]_vars

NextSelectors ==
    AttributesToCrop
      /\ UNCHANGED <<facetVars, parseVars, cropVars, highlightVars, matchesVars,
                keyVars, distinctVars, criteriaVars, cropDocVars>>

InitSpecSelectors ==
    InitFacets /\ IdleParse /\ IdleCrop /\ IdleHighlight /\ IdleMatches
      /\ IdleKey /\ IdleDistinct /\ IdleCriteria /\ IdleCropDoc
      /\ InitSelectors

SpecSelectors == InitSpecSelectors /\ [][NextSelectors]_vars

====
